---- MODULE Spec2Model ----
(***************************************************************************)
(* SignalsClient (plugins/signals, src/unnamed/part_003): one WebSocket    *)
(* shared by many topic subscriptions.  JavaScript is single threaded, so  *)
(* every synchronous block of the class is one action; every await and     *)
(* every promise continuation is a step of its own.                        *)
(***************************************************************************)
EXTENDS Integers, Sequences, FiniteSets, Bags, TLC

\* ------------------------------------------------------------------ bounds
\* Spec: every operation and every failure
MaxSubs == 2        \* subscribe() calls in one behaviour
MaxSockets == 2     \* WebSocket objects constructed in one behaviour
MaxInjected == 1    \* injected failures, inbound message events and unsubscribe
                    \* calls with an unknown handle in one behaviour
\* SpecDispatch: more subscribers and messages, no injected failure
MaxSubsDispatch == 3
MaxSocketsDispatch == 1
MaxMsgsDispatch == 2
\* SpecUrl: every base URL, no injected failure and no inbound message
MaxSubsUrl == 1
MaxSocketsUrl == 2

\* ------------------------------------------------------- program constants
WS_CLOSE_NORMAL == 1000
WS_CLOSE_GOING_AWAY == 1001

Topics == {"t1", "t2"}
Tokens == {"", "tok"}            \* "" is the absent / empty credential
\* close codes a CloseEvent may carry: the two the code names, and 1006
\* (abnormal closure) for every other one
CloseCodes == {WS_CLOSE_NORMAL, WS_CLOSE_GOING_AWAY, 1006}

\* uuid(): the n-th call returns a string no earlier call returned
HandleNames == <<"h1", "h2", "h3", "h4", "h5", "h6">>
\* mutant of uuid: every call returns the same id
uuidRepeated(n) == HandleNames[1]

uuid(n) == HandleNames[n]
UnknownHandle == "h0"            \* a handle subscribe never returned

VARIABLES
  ws,                \* this.ws: 0 (null) or the index of a socket in socks
  socks,             \* every WebSocket constructed so far: its readyState and the
                     \* code close() was called with
  subscriptions,     \* this.subscriptions, in Map insertion order
  messageQueue,      \* this.messageQueue
  reconnectTimeout,  \* this.reconnectTimeout: 0 (undefined/null) or a timer id
  timers,            \* the timers setTimeout holds pending for reconnect()
  tasks,             \* bag of the connect() invocations in flight, each with the
                     \* continuation its caller attached and the await it is at
  nextId,            \* number of uuid() calls made, plus one
  emitted,           \* history: frames handed to send(), in call order
  wire,              \* history: <<socket, frame>> handed to WebSocket.send, in order
  calls,             \* history: <<handle, payload>> per callback invocation, in order
  nMsgs,             \* history: inbound message events so far
  faults,            \* history: failures injected so far
  ups,               \* history: per topic, times its entry count went 0 -> 1
  downs,             \* history: per topic, times its entry count went 1 -> 0
  removed,           \* history: the entries unsubscribe has deleted
  triggers,          \* history: reconnect() calls since a reconnect timer last fired
  raised,            \* history: a call of the public surface threw to its caller
  noops,             \* history: unsubscribe calls with a handle not in the map
  garbled            \* history: inbound message events whose text did not parse

sockVars == <<ws, socks>>
regVars == <<subscriptions, nextId, ups, downs, removed, raised, noops>>
outVars == <<messageQueue, emitted, wire>>
timerVars == <<reconnectTimeout, timers, triggers>>
inVars == <<calls, nMsgs, garbled>>
vars == <<sockVars, regVars, outVars, timerVars, inVars, tasks, faults>>

\* ---------------------------------------------------------------- helpers
RECURSIVE SeqCount(_, _)
SeqCount(s, x) ==
  IF s = <<>> THEN 0 ELSE (IF Head(s) = x THEN 1 ELSE 0) + SeqCount(Tail(s), x)

Range(s) == {s[i] : i \in 1..Len(s)}

\* mutant of TopicExists: find(() => true), any entry counts as a match
TopicExistsAnyEntry(subs, topic) == Len(subs) > 0

\* [...this.subscriptions.values()].find(sub => sub.topic === topic) is defined
TopicExists(subs, topic) == \E i \in 1..Len(subs) : subs[i].topic = topic

CountTopic(subs, topic) == Cardinality({i \in 1..Len(subs) : subs[i].topic = topic})

\* this.subscriptions.get(h) is defined
Known(subs, h) == \E i \in 1..Len(subs) : subs[i].id = h

\* this.subscriptions.delete(h)
MapDelete(subs, h) == SelectSeq(subs, LAMBDA e : e.id # h)

\* [...this.subscriptions.keys()]
MapKeys(subs) == [i \in 1..Len(subs) |-> subs[i].id]

\* JSON.stringify of an outbound control object: the text is stood for by the
\* tuple of its values, <<action, topic-or-token>>
JSONstringify(data) ==
  IF data.action = "authenticate" THEN <<data.action, data.token>>
  ELSE <<data.action, data.topic>>

\* mutant of IsOpen: only the handle is tested, not its readyState
IsOpenAnyHandle(w, sk) == w # 0

\* this.ws && this.ws.readyState === WebSocket.OPEN
IsOpen(w, sk) == w # 0 /\ sk[w].readyState = "OPEN"

\* mutant of Unshift: the buffer is replaced by the new frame
UnshiftReplacing(q, msg) == <<msg>>

\* this.messageQueue.unshift(jsonMessage)
Unshift(q, msg) == <<msg>> \o q

\* WebSocket.send throws InvalidStateError on a socket that is still connecting
WebSocketSendThrows(w, sk) == sk[w].readyState = "CONNECTING"

\* mutant of send: the buffer is not cleared after it was flushed
sendKeepingQueue(st, data) ==
  LET jsonMessage == JSONstringify(data) IN
  IF st.threw THEN st
  ELSE IF ~IsOpen(st.ws, st.socks)
  THEN [st EXCEPT !.messageQueue = Unshift(@, jsonMessage),
                  !.emitted = Append(@, jsonMessage)]
  ELSE IF WebSocketSendThrows(st.ws, st.socks)
  THEN [st EXCEPT !.emitted = Append(@, jsonMessage), !.threw = TRUE]
  ELSE [st EXCEPT !.wire = @ \o [i \in 1..Len(st.messageQueue) |->
                                   <<st.ws, st.messageQueue[i]>>]
                             \o << <<st.ws, jsonMessage>> >>,
                  !.emitted = Append(@, jsonMessage)]

\* send(data): st is the part of the state send reads and writes, and whether
\* a send has thrown
send(st, data) ==
  LET jsonMessage == JSONstringify(data) IN
  IF st.threw THEN st
  ELSE IF ~IsOpen(st.ws, st.socks)
  THEN [st EXCEPT !.messageQueue = Unshift(@, jsonMessage),
                  !.emitted = Append(@, jsonMessage)]
  ELSE IF WebSocketSendThrows(st.ws, st.socks)
  THEN [st EXCEPT !.emitted = Append(@, jsonMessage), !.threw = TRUE]
  ELSE [st EXCEPT !.wire = @ \o [i \in 1..Len(st.messageQueue) |->
                                   <<st.ws, st.messageQueue[i]>>]
                             \o << <<st.ws, jsonMessage>> >>,
                  !.messageQueue = <<>>,
                  !.emitted = Append(@, jsonMessage)]

\* for (const topic of keys) this.send({action: 'subscribe', topic})
RECURSIVE sendAll(_, _)
sendAll(st, keys) ==
  IF keys = <<>> THEN st
  ELSE sendAll(send(st, [action |-> "subscribe", topic |-> Head(keys)]), Tail(keys))

SendState == [ws |-> ws, socks |-> socks, messageQueue |-> messageQueue,
              wire |-> wire, emitted |-> emitted, threw |-> FALSE]

\* the URLs discoveryApi.getBaseUrl('signals') may resolve with.  The text of
\* a URL is stood for by the tuple <<scheme, host, path>> of its parts
BaseUrls == {"http", "https"} \X {"localhost:7007", "backstage.example"}
                             \X {"/api/signals", "/backstage/api/signals"}

\* the base URL of a backend under development
LocalBaseUrl == <<"http", "localhost:7007", "/api/signals">>

\* a scheme as the protocol property spells it, with its colon
Protocol(scheme) ==
  CASE scheme = "http" -> "http:"
    [] scheme = "https" -> "https:"
    [] scheme = "ws" -> "ws:"
    [] scheme = "wss" -> "wss:"

\* new URL(apiUrl)
URLparse(text) == [protocol |-> Protocol(text[1]), host |-> text[2], pathname |-> text[3]]

\* url.protocol = scheme
SetProtocol(url, scheme) == [url EXCEPT !.protocol = Protocol(scheme)]

\* url.toString()
URLtoString(url) ==
  <<CHOOSE scheme \in {"http", "https", "ws", "wss"} : Protocol(scheme) = url.protocol,
    url.host, url.pathname>>

\* mutant of StreamingUrl: the scheme becomes ws whatever it was
StreamingUrlPlain(apiUrl) == URLtoString(SetProtocol(URLparse(apiUrl), "ws"))

\* url.protocol = url.protocol === 'http:' ? 'ws' : 'wss'; url.toString()
StreamingUrl(apiUrl) ==
  LET url == URLparse(apiUrl)
  IN URLtoString(SetProtocol(url, IF url.protocol = "http:" THEN "ws" ELSE "wss"))

\* new WebSocket(url): connecting, close() not called
NewSocket(url) == [readyState |-> "CONNECTING", closeCode |-> -1, url |-> url]

\* mutant of CloseSocket: close() is called without the code
CloseSocketWithoutCode(sk, w, code) ==
  IF w = 0 THEN sk
  ELSE [sk EXCEPT ![w] = IF @.readyState \in {"CONNECTING", "OPEN"}
                         THEN [@ EXCEPT !.readyState = "CLOSING", !.closeCode = 0]
                         ELSE @]

\* w?.close(code): an open or connecting socket starts closing; code 0 stands
\* for close() called without a code
CloseSocket(sk, w, code) ==
  IF w = 0 THEN sk
  ELSE [sk EXCEPT ![w] = IF @.readyState \in {"CONNECTING", "OPEN"}
                         THEN [@ EXCEPT !.readyState = "CLOSING", !.closeCode = code]
                         ELSE @]

\* setTimeout: an id no pending timer has
NewTimer(ts) == CHOOSE i \in 1..(Cardinality(ts) + 1) : i \notin ts

\* mutant of ClearTimeout: the pending timer is not cancelled
ClearTimeoutSkipped(ts, slot) == ts

\* if (this.reconnectTimeout) clearTimeout(this.reconnectTimeout)
ClearTimeout(ts, slot) == IF slot # 0 THEN ts \ {slot} ELSE ts

\* reconnect(): the timers pending and the slot after the call
reconnect(ts, slot) ==
  LET kept == ClearTimeout(ts, slot)
      t == NewTimer(kept)
  IN [timers |-> kept \cup {t}, slot |-> t]

\* mutant of IsAbnormalClose: only the normal close code is exempt
IsAbnormalCloseButNormal(code) == code # WS_CLOSE_NORMAL

\* ev.code !== WS_CLOSE_NORMAL && ev.code !== WS_CLOSE_GOING_AWAY
IsAbnormalClose(code) == code # WS_CLOSE_NORMAL /\ code # WS_CLOSE_GOING_AWAY

\* handleMessage's loop: the handles whose callback is invoked, in order.
\* raisers are the handles whose callback throws on this message: the throw
\* leaves the loop (the try/catch is around the loop, not inside it)
RECURSIVE Dispatch(_, _, _)
Dispatch(subs, topic, raisers) ==
  IF subs = <<>> THEN <<>>
  ELSE IF Head(subs).topic = topic
       THEN IF Head(subs).id \in raisers THEN <<Head(subs).id>>
            ELSE <<Head(subs).id>> \o Dispatch(Tail(subs), topic, raisers)
       ELSE Dispatch(Tail(subs), topic, raisers)

\* if (json.topic): the empty string is falsy, like a missing topic
Truthy(topic) == topic # ""

\* mutant of handleMessage: the text is not parsed, a topic found in it is used
handleMessageUnparsed(subs, ev, raisers) ==
  IF Truthy(ev.topic) THEN Dispatch(subs, ev.topic, raisers) ELSE <<>>

\* handleMessage(data): the callbacks invoked
handleMessage(subs, ev, raisers) ==
  IF ~ev.parses THEN <<>>
  ELSE IF Truthy(ev.topic) THEN Dispatch(subs, ev.topic, raisers) ELSE <<>>

\* the handles subscribed to topic
Subscribers(subs, topic) == {subs[i].id : i \in {j \in 1..Len(subs) : subs[j].topic = topic}}

\* MessageEvents the transport may deliver as the n-th one: {topic, message}
\* with the topic possibly missing, as text that parses or as text that does
\* not (cut short, say); the payload of the n-th event is n, so that no two
\* events carry the same payload
InboundEvents(n) ==
  {[parses |-> p, topic |-> t, message |-> n] : p \in BOOLEAN, t \in Topics \cup {""}}

\* a promise continuation (microtask) is waiting to run
MicrotaskPending == \E tk \in BagToSet(tasks) : tk.pc \in {"resolved", "rejected"}

\* one task of the bag moves on / is done
Advance(tk, pc) == (tasks (-) SetToBag({tk})) (+) SetToBag({[tk EXCEPT !.pc = pc]})
Finish(tk) == tasks (-) SetToBag({tk})

\* ------------------------------------------------------------------- Init
Init ==
  /\ ws = 0
  /\ socks = <<>>
  /\ subscriptions = <<>>
  /\ messageQueue = <<>>
  /\ reconnectTimeout = 0
  /\ timers = {}
  /\ tasks = EmptyBag
  /\ nextId = 1
  /\ emitted = <<>>
  /\ wire = <<>>
  /\ calls = <<>>
  /\ nMsgs = 0
  /\ faults = 0
  /\ ups = [t \in Topics |-> 0]
  /\ downs = [t \in Topics |-> 0]
  /\ removed = {}
  /\ triggers = 0
  /\ raised = FALSE
  /\ noops = 0
  /\ garbled = 0

\* ---------------------------------------------------------------- actions
\* what send() leaves behind
Sent(st) ==
  /\ messageQueue' = st.messageQueue
  /\ emitted' = st.emitted
  /\ wire' = st.wire

\* this.reconnect()
Reconnect ==
  LET r == reconnect(timers, reconnectTimeout)
  IN /\ timers' = r.timers
     /\ reconnectTimeout' = r.slot
     /\ triggers' = triggers + 1

\* the step is a failure of a collaborator or of the transport
Fault == faults' = faults + 1

\* mutant of ConnectTask: no test of this.ws, the lookup always starts
ConnectTaskUnguarded(origin, topic, exists) ==
  [origin |-> origin, topic |-> topic, exists |-> exists, pc |-> "discovery"]

\* connect() up to its first await: a no-op that resolves when this.ws is set,
\* else suspended on discoveryApi.getBaseUrl
ConnectTask(origin, topic, exists) ==
  [origin |-> origin, topic |-> topic, exists |-> exists,
   pc |-> IF ws # 0 THEN "resolved" ELSE "discovery"]

\* subscribe(onMessage, topic)
Subscribe(topic) ==
  /\ LET subscriptionId == uuid(nextId)
         exists == TopicExists(subscriptions, topic)
     IN /\ subscriptions' = Append(subscriptions, [id |-> subscriptionId, topic |-> topic])
        /\ tasks' = tasks (+) SetToBag({ConnectTask("subscribe", topic, exists)})
  /\ nextId' = nextId + 1
  /\ ups' = [ups EXCEPT ![topic] = IF CountTopic(subscriptions, topic) = 0
                                   THEN @ + 1 ELSE @]
  /\ UNCHANGED <<sockVars, outVars, timerVars, inVars, faults, downs, removed, raised, noops>>

\* mutant of Unsubscribe: no early return for a handle the map does not hold;
\* sub?.topic is then undefined, no entry has it, and the frame is sent
UnsubscribeUnguarded(h) ==
  LET known == Known(subscriptions, h)
      sub == IF known THEN CHOOSE e \in Range(subscriptions) : e.id = h
             ELSE [id |-> h, topic |-> ""]
      rest == MapDelete(subscriptions, h)
      st == IF ~TopicExists(rest, sub.topic)
            THEN send(SendState, [action |-> "unsubscribe", topic |-> sub.topic])
            ELSE SendState
  IN /\ subscriptions' = rest
     /\ Sent(st)
     /\ raised' = (raised \/ st.threw)
     /\ IF Len(rest) = 0 /\ ~st.threw
        THEN /\ socks' = CloseSocket(socks, ws, WS_CLOSE_NORMAL)
             /\ ws' = 0
        ELSE UNCHANGED sockVars
     /\ downs' = IF known /\ CountTopic(rest, sub.topic) = 0
                 THEN [downs EXCEPT ![sub.topic] = @ + 1] ELSE downs
     /\ removed' = IF known THEN removed \cup {sub} ELSE removed
     /\ noops' = IF known THEN noops ELSE noops + 1
     /\ UNCHANGED <<timerVars, inVars, tasks, faults, nextId, ups>>

\* unsubscribe(subscription)
Unsubscribe(h) ==
  IF ~Known(subscriptions, h)
  THEN /\ noops' = noops + 1
       /\ UNCHANGED <<sockVars, subscriptions, nextId, ups, downs, removed, raised,
                      outVars, timerVars, inVars, tasks, faults>>
  ELSE LET sub == CHOOSE e \in Range(subscriptions) : e.id = h
           topic == sub.topic
           rest == MapDelete(subscriptions, h)
           exists == TopicExists(rest, topic)
           st == IF ~exists
                 THEN send(SendState, [action |-> "unsubscribe", topic |-> sub.topic])
                 ELSE SendState
       IN /\ subscriptions' = rest
          /\ Sent(st)
          /\ raised' = (raised \/ st.threw)
          /\ IF Len(rest) = 0 /\ ~st.threw
             THEN /\ socks' = CloseSocket(socks, ws, WS_CLOSE_NORMAL)
                  /\ ws' = 0
             ELSE UNCHANGED sockVars
          /\ downs' = [downs EXCEPT ![topic] = IF CountTopic(rest, topic) = 0
                                               THEN @ + 1 ELSE @]
          /\ removed' = removed \cup {sub}
          /\ UNCHANGED <<timerVars, inVars, tasks, faults, nextId, ups, noops>>

\* connect() resumes after `await getBaseUrl` with apiUrl: the scheme is
\* rewritten, new WebSocket(url), the three
\* handlers, and the first turn of the wait loop (a new socket is CONNECTING)
DiscoveryResolve(tk, apiUrl) ==
  /\ tk.pc = "discovery"
  /\ socks' = Append(socks, NewSocket(StreamingUrl(apiUrl)))
  /\ ws' = Len(socks) + 1
  /\ tasks' = Advance(tk, "poll")
  /\ UNCHANGED <<regVars, outVars, timerVars, inVars, faults>>

\* getBaseUrl rejects, or new URL(apiUrl) throws: connect() rejects
DiscoveryReject(tk) ==
  /\ tk.pc = "discovery"
  /\ Fault
  /\ tasks' = Advance(tk, "rejected")
  /\ UNCHANGED <<sockVars, regVars, outVars, timerVars, inVars>>

\* the wait loop ends with this.ws open: connect() calls authenticate(), which
\* suspends on identity.getCredentials
PollOpen(tk) ==
  /\ tk.pc = "poll"
  /\ ~MicrotaskPending
  /\ IsOpen(ws, socks)
  /\ tasks' = Advance(tk, "auth")
  /\ UNCHANGED <<sockVars, regVars, outVars, timerVars, inVars, faults>>

\* the wait loop ends because this.ws is null (teardown or a reconnect timer
\* cleared it meanwhile): throw new Error('Connect timeout')
PollNoSocket(tk) ==
  /\ tk.pc = "poll"
  /\ ~MicrotaskPending
  /\ ws = 0
  /\ tasks' = Advance(tk, "rejected")
  /\ UNCHANGED <<sockVars, regVars, outVars, timerVars, inVars, faults>>

\* the wait loop ends with connectSleep at CONNECT_TIMEOUT_MS and this.ws not
\* open: throw new Error('Connect timeout').  this.ws is left as it is.
PollTimeout(tk) ==
  /\ tk.pc = "poll"
  /\ ~MicrotaskPending
  /\ ws # 0 /\ ~IsOpen(ws, socks)
  /\ Fault
  /\ tasks' = Advance(tk, "rejected")
  /\ UNCHANGED <<sockVars, regVars, outVars, timerVars, inVars>>

\* mutant of AuthResolve: the frame is sent whatever the token is
AuthResolveAnyToken(tk, token) ==
  /\ tk.pc = "auth"
  /\ LET st == send(SendState, [action |-> "authenticate", token |-> token])
     IN /\ Sent(st)
        /\ tasks' = Advance(tk, IF st.threw THEN "rejected" ELSE "resolved")
  /\ UNCHANGED <<sockVars, regVars, timerVars, inVars, faults>>

\* authenticate() resumes after `await getCredentials` with token; connect()
\* resolves
AuthResolve(tk, token) ==
  /\ tk.pc = "auth"
  /\ LET st == IF token # ""
               THEN send(SendState, [action |-> "authenticate", token |-> token])
               ELSE SendState
     IN /\ Sent(st)
        /\ tasks' = Advance(tk, IF st.threw THEN "rejected" ELSE "resolved")
  /\ UNCHANGED <<sockVars, regVars, timerVars, inVars, faults>>

\* getCredentials rejects: authenticate() and connect() reject
AuthReject(tk) ==
  /\ tk.pc = "auth"
  /\ Fault
  /\ tasks' = Advance(tk, "rejected")
  /\ UNCHANGED <<sockVars, regVars, outVars, timerVars, inVars>>

\* the frames the .then(...) of a resolved connect() sends: subscribe's sends
\* its topic unless the topic existed when subscribe ran, reconnect's sends one
\* frame per key of the subscriptions map
ThenSends(tk, st, subs) ==
  IF tk.origin = "subscribe"
  THEN IF ~tk.exists
       THEN send(st, [action |-> "subscribe", topic |-> tk.topic])
       ELSE st
  ELSE sendAll(st, MapKeys(subs))

\* the .then(...) of a connect() that resolved; a throw in it rejects the
\* promise .catch(...) is attached to
Then(tk) ==
  /\ tk.pc = "resolved"
  /\ LET st == ThenSends(tk, SendState, subscriptions)
     IN /\ Sent(st)
        /\ tasks' = IF st.threw THEN Advance(tk, "rejected") ELSE Finish(tk)
  /\ UNCHANGED <<sockVars, regVars, timerVars, inVars, faults>>

\* the .catch(...) of a connect() that rejected: this.reconnect()
Catch(tk) ==
  /\ tk.pc = "rejected"
  /\ Reconnect
  /\ tasks' = Finish(tk)
  /\ UNCHANGED <<sockVars, regVars, outVars, inVars, faults>>

\* the transport of socket s reaches the open state (no onopen handler is set)
SockOpen(s) ==
  /\ socks[s].readyState = "CONNECTING"
  /\ ~MicrotaskPending
  /\ socks' = [socks EXCEPT ![s].readyState = "OPEN"]
  /\ UNCHANGED <<ws, regVars, outVars, timerVars, inVars, tasks, faults>>

\* ws.onerror of socket s: this.reconnect().  The failing socket is no longer
\* open; its close event follows.
SockError(s) ==
  /\ socks[s].readyState \in {"CONNECTING", "OPEN"}
  /\ ~MicrotaskPending
  /\ Fault
  /\ socks' = [socks EXCEPT ![s].readyState = "CLOSING"]
  /\ Reconnect
  /\ UNCHANGED <<ws, regVars, outVars, inVars, tasks>>

\* ws.onclose of socket s with ev.code = code.  A close nobody asked for (the
\* socket was connecting or open) is a failure; the close that ends CLOSING is
\* the one close() or an error announced.
SockClose(s, code) ==
  /\ socks[s].readyState # "CLOSED"
  /\ ~MicrotaskPending
  /\ IF socks[s].readyState = "CLOSING" THEN UNCHANGED faults ELSE Fault
  /\ socks' = [socks EXCEPT ![s].readyState = "CLOSED"]
  /\ IF IsAbnormalClose(code) THEN Reconnect ELSE UNCHANGED timerVars
  /\ UNCHANGED <<ws, regVars, outVars, inVars, tasks>>

\* ws.onmessage of socket s: handleMessage(data); the callbacks in raisers throw
SockMessage(s, ev, raisers) ==
  /\ socks[s].readyState = "OPEN"
  /\ ~MicrotaskPending
  /\ nMsgs' = nMsgs + 1
  /\ garbled' = IF ev.parses THEN garbled ELSE garbled + 1
  /\ LET invoked == handleMessage(subscriptions, ev, raisers)
     IN calls' = calls \o [k \in 1..Len(invoked) |-> <<invoked[k], ev.message>>]
  /\ UNCHANGED <<sockVars, regVars, outVars, timerVars, tasks, faults>>

\* mutant of TimerFire: the old socket is closed but this.ws is not set to
\* null before connect() runs
TimerFireKeepingHandle(t) ==
  /\ t \in timers
  /\ ~MicrotaskPending
  /\ timers' = timers \ {t}
  /\ reconnectTimeout' = 0
  /\ triggers' = 0
  /\ socks' = CloseSocket(socks, ws, 0)
  /\ ws' = ws
  /\ tasks' = tasks (+) SetToBag({[origin |-> "reconnect", topic |-> "",
                                    exists |-> FALSE,
                                    pc |-> IF ws # 0 THEN "resolved" ELSE "discovery"]})
  /\ UNCHANGED <<regVars, outVars, inVars, faults>>

\* the callback reconnect() gave to setTimeout, up to connect()'s first await
TimerFire(t) ==
  /\ t \in timers
  /\ ~MicrotaskPending
  /\ timers' = timers \ {t}
  /\ reconnectTimeout' = 0
  /\ triggers' = 0
  /\ socks' = CloseSocket(socks, ws, 0)
  /\ ws' = 0
  /\ tasks' = tasks (+) SetToBag({[origin |-> "reconnect", topic |-> "",
                                    exists |-> FALSE, pc |-> "discovery"]})
  /\ UNCHANGED <<regVars, outVars, inVars, faults>>

\* ---------------------------------------------------------- specifications
\* Topic names are interchangeable in the code, so the first subscription is
\* taken to be to "t1".
FirstTopic(topic) == nextId = 1 => topic = "t1"

CanInject == faults + nMsgs + noops < MaxInjected

Next ==
  \/ \E topic \in Topics : nextId <= MaxSubs /\ FirstTopic(topic) /\ Subscribe(topic)
  \/ \E n \in 1..(nextId - 1) :
       (Known(subscriptions, uuid(n)) \/ CanInject) /\ Unsubscribe(uuid(n))
  \/ CanInject /\ Unsubscribe(UnknownHandle)
  \/ \E tk \in BagToSet(tasks) : Len(socks) < MaxSockets /\ DiscoveryResolve(tk, LocalBaseUrl)
  \/ \E tk \in BagToSet(tasks) : CanInject /\ DiscoveryReject(tk)
  \/ \E tk \in BagToSet(tasks) : PollOpen(tk)
  \/ \E tk \in BagToSet(tasks) : PollNoSocket(tk)
  \/ \E tk \in BagToSet(tasks) : CanInject /\ PollTimeout(tk)
  \/ \E tk \in BagToSet(tasks), token \in Tokens : AuthResolve(tk, token)
  \/ \E tk \in BagToSet(tasks) : CanInject /\ AuthReject(tk)
  \/ \E tk \in BagToSet(tasks) : Then(tk)
  \/ \E tk \in BagToSet(tasks) : Catch(tk)
  \/ \E s \in 1..Len(socks) : SockOpen(s)
  \/ \E s \in 1..Len(socks) : CanInject /\ SockError(s)
  \/ \E s \in 1..Len(socks), code \in CloseCodes :
       (socks[s].readyState = "CLOSING" \/ CanInject) /\ SockClose(s, code)
  \/ \E s \in 1..Len(socks), ev \in InboundEvents(nMsgs + 1) :
       \E raisers \in SUBSET Subscribers(subscriptions, ev.topic) :
         CanInject /\ SockMessage(s, ev, raisers)
  \/ \E t \in timers : TimerFire(t)

Spec == Init /\ [][Next]_vars

\* The same client with collaborators and a transport that do not fail
NextDispatch ==
  \/ \E topic \in Topics :
       nextId <= MaxSubsDispatch /\ FirstTopic(topic) /\ Subscribe(topic)
  \/ \E n \in 1..(nextId - 1) :
       Known(subscriptions, uuid(n)) /\ Unsubscribe(uuid(n))
  \/ \E tk \in BagToSet(tasks) : Len(socks) < MaxSocketsDispatch /\ DiscoveryResolve(tk, LocalBaseUrl)
  \/ \E tk \in BagToSet(tasks) : PollOpen(tk)
  \/ \E tk \in BagToSet(tasks) : PollNoSocket(tk)
  \/ \E tk \in BagToSet(tasks), token \in Tokens : AuthResolve(tk, token)
  \/ \E tk \in BagToSet(tasks) : Then(tk)
  \/ \E tk \in BagToSet(tasks) : Catch(tk)
  \/ \E s \in 1..Len(socks) : SockOpen(s)
  \/ \E s \in 1..Len(socks) :
       socks[s].readyState = "CLOSING" /\ SockClose(s, WS_CLOSE_NORMAL)
  \/ \E s \in 1..Len(socks), ev \in InboundEvents(nMsgs + 1) :
       \E raisers \in SUBSET Subscribers(subscriptions, ev.topic) :
         nMsgs < MaxMsgsDispatch /\ SockMessage(s, ev, raisers)
  \/ \E t \in timers : TimerFire(t)

SpecDispatch == Init /\ [][NextDispatch]_vars

\* The same client with one subscriber and an endpoint lookup that may resolve
\* with any base URL
NextUrl ==
  \/ \E topic \in Topics :
       nextId <= MaxSubsUrl /\ FirstTopic(topic) /\ Subscribe(topic)
  \/ \E n \in 1..(nextId - 1) :
       Known(subscriptions, uuid(n)) /\ Unsubscribe(uuid(n))
  \/ \E tk \in BagToSet(tasks), apiUrl \in BaseUrls :
       Len(socks) < MaxSocketsUrl /\ DiscoveryResolve(tk, apiUrl)
  \/ \E tk \in BagToSet(tasks) : PollOpen(tk)
  \/ \E tk \in BagToSet(tasks) : PollNoSocket(tk)
  \/ \E tk \in BagToSet(tasks), token \in Tokens : AuthResolve(tk, token)
  \/ \E tk \in BagToSet(tasks) : Then(tk)
  \/ \E tk \in BagToSet(tasks) : Catch(tk)
  \/ \E s \in 1..Len(socks) : SockOpen(s)
  \/ \E s \in 1..Len(socks) :
       socks[s].readyState = "CLOSING" /\ SockClose(s, WS_CLOSE_NORMAL)
  \/ \E t \in timers : TimerFire(t)

SpecUrl == Init /\ [][NextUrl]_vars

\* ------------------------------------------------------------------ claims
SubscribeFrame(topic) == <<"subscribe", topic>>
UnsubscribeFrame(topic) == <<"unsubscribe", topic>>

\* the frames handed to WebSocket.send, without the socket
Frames(w) == [i \in 1..Len(w) |-> w[i][2]]

IsPrefix(a, b) == Len(a) <= Len(b) /\ SubSeq(b, 1, Len(a)) = a

\* registry entries with this topic
NumEntries(topic) ==
  Cardinality({i \in 1..Len(subscriptions) : subscriptions[i].topic = topic})

\* no connect() is in flight and no reconnect timer is pending: the client does
\* nothing more until it is called or the transport delivers an event
Quiescent == BagToSet(tasks) = {} /\ timers = {}

\* the frames this step handed to send(), the callbacks this step invoked
NewEmitted == SubSeq(emitted', Len(emitted) + 1, Len(emitted'))
NewCalls == SubSeq(calls', Len(calls) + 1, Len(calls'))

\* C1: when subscribe has been called one or more times for a topic and nothing
\* was unsubscribed, exactly one subscribe frame with that topic is handed to
\* send in total (read once the client has settled on an open transport)
C1_ExactlyOneSubscribeFrame ==
  \A topic \in Topics :
    (removed = {} /\ NumEntries(topic) >= 1 /\ Quiescent /\ IsOpen(ws, socks))
      => SeqCount(emitted, SubscribeFrame(topic)) = 1

\* C2: for each topic the client emits one subscribe frame per 0 -> 1 change of
\* its number of entries and one unsubscribe frame per 1 -> 0 change, and no
\* other subscribe or unsubscribe frame for the topic (read once the client
\* has settled)
C2_OneFramePerTransition ==
  Quiescent =>
    \A topic \in Topics :
      /\ SeqCount(emitted, SubscribeFrame(topic)) = ups[topic]
      /\ SeqCount(emitted, UnsubscribeFrame(topic)) = downs[topic]

\* C3: unsubscribe of a known handle removes exactly that entry and hands an
\* unsubscribe frame for its topic to send iff no remaining entry has the topic
C3_UnsubscribeFrameIffLastOfTopic ==
  [][\A n \in 1..(nextId - 1) :
       LET h == uuid(n) IN
       ((\E i \in 1..Len(subscriptions) : subscriptions[i].id = h) /\ Unsubscribe(h)) =>
         LET e == CHOOSE x \in Range(subscriptions) : x.id = h
             others == Range(subscriptions) \ {e}
         IN /\ Range(subscriptions') = others
            /\ Len(subscriptions') = Len(subscriptions) - 1
            /\ NewEmitted = IF \E x \in others : x.topic = e.topic
                            THEN <<>>
                            ELSE <<UnsubscribeFrame(e.topic)>>]_vars

\* C3 witness: two subscribers of one topic were both unsubscribed and one
\* unsubscribe frame for the topic was emitted (none for the first removal,
\* one for the last)
C3_Witness ==
  \E topic \in Topics :
    /\ Cardinality(removed) = 2
    /\ \A r \in removed : r.topic = topic
    /\ subscriptions = <<>>
    /\ SeqCount(emitted, UnsubscribeFrame(topic)) = 1

\* C4: once a handle is unsubscribed its callback is not invoked again, and
\* every entry still registered on its topic is invoked once per later inbound
\* frame on that topic
C4_SiblingsKeepReceiving ==
  [][\A s \in 1..Len(socks), ev \in InboundEvents(nMsgs + 1) :
       \A raisers \in SUBSET Subscribers(subscriptions, ev.topic) :
         (ev.parses /\ ev.topic \in Topics /\ SockMessage(s, ev, raisers)) =>
           \A r \in removed :
             r.topic = ev.topic =>
               /\ SeqCount(NewCalls, <<r.id, ev.message>>) = 0
               /\ \A e \in Range(subscriptions) :
                    e.topic = r.topic => SeqCount(NewCalls, <<e.id, ev.message>>) = 1]_vars

\* C5: an inbound frame that parses and carries topic T invokes the callback of
\* every entry on T exactly once with the frame's payload, and of no other entry
C5_EveryMatchingEntryOnce ==
  [][\A s \in 1..Len(socks), ev \in InboundEvents(nMsgs + 1) :
       \A raisers \in SUBSET Subscribers(subscriptions, ev.topic) :
         (ev.parses /\ ev.topic \in Topics /\ SockMessage(s, ev, raisers)) =>
           /\ \A e \in Range(subscriptions) :
                SeqCount(NewCalls, <<e.id, ev.message>>) =
                  IF e.topic = ev.topic THEN 1 ELSE 0
           /\ Len(NewCalls) = NumEntries(ev.topic)]_vars

\* C6: frames are transmitted in the order they were handed to send: the
\* buffered ones in buffering order, and before any frame sent later
C6_FifoTransmission == IsPrefix(Frames(wire), emitted)

\* C7: no buffered frame is left behind once a transport is open: when the
\* client has settled on an open transport the buffer is empty (in such a
\* state no step of the client is pending that could still transmit it)
C7_BufferDrainedOnceOpen ==
  (Quiescent /\ IsOpen(ws, socks)) => messageQueue = <<>>

\* C8: the continuation of a reconnect whose connect() succeeded sends exactly
\* one subscribe frame per distinct topic that has an entry, carrying that
\* topic, and no other frame
C8_ResubscribePerDistinctTopic ==
  [][\A tk \in BagToSet(tasks) :
       (tk.origin = "reconnect" /\ Then(tk)) =>
         /\ \A topic \in Topics :
              SeqCount(NewEmitted, SubscribeFrame(topic)) =
                IF NumEntries(topic) >= 1 THEN 1 ELSE 0
         /\ Len(NewEmitted) = Cardinality({topic \in Topics : NumEntries(topic) >= 1})]_vars

\* C9: a close event with a code other than 1000 and 1001, and an error event,
\* each leave exactly one reconnect timer scheduled; a close event with code
\* 1000 or 1001 leaves the timer state as it was
C9_CloseCodeDecidesReconnect ==
  [][/\ \A s \in 1..Len(socks), code \in CloseCodes :
          SockClose(s, code) =>
            IF code \notin {1000, 1001}
            THEN Cardinality(timers') = 1 /\ reconnectTimeout' \in timers'
            ELSE timers' = timers /\ reconnectTimeout' = reconnectTimeout
     /\ \A s \in 1..Len(socks) :
          SockError(s) => Cardinality(timers') = 1 /\ reconnectTimeout' \in timers']_vars

\* C9 witness: the only subscription is connected and subscribed, its socket,
\* which the client never closed, failed and is closed, reconnect() ran once
\* (for the error event or for the abnormal close event) and one timer is
\* pending
C9_Witness ==
  /\ nextId = 2 /\ Len(subscriptions) = 1
  /\ SeqCount(Frames(wire), SubscribeFrame("t1")) = 1
  /\ BagToSet(tasks) = {}
  /\ Len(socks) = 1 /\ socks[1].readyState = "CLOSED" /\ socks[1].closeCode = -1
  /\ faults = 1 /\ triggers = 1
  /\ Cardinality(timers) = 1 /\ reconnectTimeout \in timers

\* C10: at most one reconnect timer is pending, the one this.reconnectTimeout
\* holds; however many times reconnect() ran since a timer last fired, exactly
\* one timer is pending
C10_AtMostOneTimerPending ==
  /\ Cardinality(timers) <= 1
  /\ timers # {} => timers = {reconnectTimeout}
  /\ triggers >= 1 => Cardinality(timers) = 1

\* C10 witness: reconnect() ran twice or more with no timer firing in between,
\* and one timer is pending
C10_Witness == triggers >= 2 /\ Cardinality(timers) = 1

\* C11: connect() invocations that overlap open one transport in total.  With
\* nothing unsubscribed and no failure no reconnect runs, so every transport
\* was opened by the connect() of a subscribe call, and those overlap or are
\* no-ops
C11_OverlappingConnectsOpenOneTransport ==
  (removed = {} /\ faults = 0) => Len(socks) <= 1

\* C12: an unsubscribe call that empties the registry calls close(1000) on the
\* current transport, if any, and clears the handle in the same step, whatever
\* connect() is in flight; a subscribe call after it starts connect() afresh
C12_TeardownWhenRegistryEmpties ==
  [][/\ \A n \in 1..(nextId - 1) :
          (Len(subscriptions) = 1 /\ subscriptions[1].id = uuid(n) /\ Unsubscribe(uuid(n))) =>
            /\ subscriptions' = <<>>
            /\ ws' = 0
            /\ Len(socks') = Len(socks)
            /\ \A s \in 1..Len(socks) :
                 socks'[s] =
                   IF s = ws /\ socks[s].readyState \in {"CONNECTING", "OPEN"}
                   THEN [socks[s] EXCEPT !.readyState = "CLOSING", !.closeCode = 1000]
                   ELSE socks[s]
     /\ \A topic \in Topics :
          (subscriptions = <<>> /\ removed # {} /\ Subscribe(topic)) =>
            \E tk \in BagToSet(tasks') :
              /\ CopiesIn(tk, tasks') = CopiesIn(tk, tasks) + 1
              /\ tk.pc = IF ws = 0 THEN "discovery" ELSE "resolved"]_vars

\* C12 witness: the registry was emptied while a connect() was waiting for its
\* socket to open: the socket is closing with code 1000 and the handle is clear
C12_Witness ==
  /\ subscriptions = <<>> /\ removed # {}
  /\ ws = 0
  /\ Len(socks) = 1 /\ socks[1].readyState = "CLOSING" /\ socks[1].closeCode = 1000
  /\ \E tk \in BagToSet(tasks) : tk.pc = "poll"

\* C13: no call of subscribe or unsubscribe, and no send they make, throws to
\* its caller, in whatever state the transport is and whatever failed before.
\* (subscribe runs nothing that can throw before it returns: connect() is
\* async and its failure goes to .catch; unsubscribe can throw only where
\* WebSocket.send or JSON.stringify would.)
C13_PublicSurfaceNeverRaises == raised = FALSE

\* C13 witness: unsubscribe sent its frame while the only socket, constructed
\* before the subscription was made, was still connecting: the frame was
\* buffered in front of that subscription's subscribe frame, and nothing threw
C13_Witness ==
  /\ raised = FALSE
  /\ Len(socks) = 1 /\ ws = 1 /\ socks[1].readyState = "CONNECTING"
  /\ messageQueue = <<UnsubscribeFrame("t2"), SubscribeFrame("t2")>>

\* C14: when the connect() a subscribe call started failed at the endpoint
\* lookup, the entry is still registered and, once a later connect() has
\* succeeded and the client has settled on the open transport, a subscribe
\* frame for the entry's topic has been transmitted on it.  (One socket, one
\* failure and nothing unsubscribed: the failure was the lookup of a
\* subscribe's connect(), before any socket existed.)
C14_FailedSubscribeCatchesUp ==
  (removed = {} /\ faults = 1 /\ nextId > 1 /\ Len(socks) = 1
     /\ Quiescent /\ IsOpen(ws, socks)) =>
    /\ Len(subscriptions) = nextId - 1
    /\ \A e \in Range(subscriptions) :
         <<ws, SubscribeFrame(e.topic)>> \in Range(wire)

\* C15: an inbound event whose text does not parse invokes no callback and
\* leaves the registry, the outbound buffer, the transport handle, the sockets
\* and the reconnect timer as they were
C15_UnparseableIsDiscarded ==
  [][\A s \in 1..Len(socks), ev \in InboundEvents(nMsgs + 1) :
       \A raisers \in SUBSET Subscribers(subscriptions, ev.topic) :
         (~ev.parses /\ SockMessage(s, ev, raisers)) =>
           /\ calls' = calls
           /\ UNCHANGED <<subscriptions, messageQueue, wire, ws, socks,
                          reconnectTimeout, timers, tasks>>]_vars

\* C15 witness: an event that did not parse was delivered while a subscriber
\* was registered on the open transport, and no callback has been invoked
C15_Witness ==
  /\ garbled = 1 /\ nMsgs = 1
  /\ calls = <<>>
  /\ subscriptions # <<>> /\ IsOpen(ws, socks)

\* C16: unsubscribe with a handle that is not in the registry, never issued or
\* already removed, emits no frame, closes nothing, and leaves the registry,
\* the outbound buffer, the transport handle and the reconnect timer as they
\* were; so a second unsubscribe of a handle changes nothing
C16_UnknownHandleIsNoop ==
  [][\A h \in {uuid(n) : n \in 1..(nextId - 1)} \cup {UnknownHandle} :
       ((\A e \in Range(subscriptions) : e.id # h) /\ Unsubscribe(h)) =>
         UNCHANGED <<subscriptions, messageQueue, emitted, wire, ws, socks,
                     reconnectTimeout, timers, tasks, removed, raised>>]_vars

\* C16 witness: a handle was unsubscribed, leaving another subscriber of its
\* topic, and unsubscribe was then called with a handle not in the registry
C16_Witness ==
  /\ noops = 1
  /\ Cardinality(removed) = 1 /\ Len(subscriptions) = 1
  /\ emitted = <<>>

\* C17: on every transport that carries an authenticate frame, that frame is
\* the first one transmitted on it: no subscribe or unsubscribe frame, sent
\* anew or flushed from the buffer, goes before it
C17_AuthenticateFirstOnTransport ==
  \A s \in 1..Len(socks) :
    LET on == {k \in 1..Len(wire) : wire[k][1] = s}
    IN (\E k \in on : wire[k][2][1] = "authenticate") =>
         \A k \in on : (\A j \in on : k <= j) => wire[k][2][1] = "authenticate"

\* C18: a connect() that reaches authenticate() sends exactly one authenticate
\* frame, carrying the token, when the token is non-empty and no frame when it
\* is empty; no other step, a connect() that is a no-op included, sends an
\* authenticate frame
C18_AuthenticateFrameIffToken ==
  [][/\ \A tk \in BagToSet(tasks), token \in Tokens :
          AuthResolve(tk, token) =>
            NewEmitted = IF token # "" THEN << <<"authenticate", token>> >> ELSE <<>>
     /\ (\E k \in 1..Len(NewEmitted) : NewEmitted[k][1] = "authenticate") =>
          \E tk \in BagToSet(tasks), token \in Tokens : AuthResolve(tk, token)]_vars

\* C18 witness: two subscribe calls, the first opening the transport with a
\* token and the second a no-op connect(): one authenticate frame was sent,
\* first on the wire, followed by both subscribe frames
C18_Witness ==
  /\ Len(socks) = 1 /\ BagToSet(tasks) = {}
  /\ Frames(wire) = << <<"authenticate", "tok">>, SubscribeFrame("t1"), SubscribeFrame("t2") >>

\* C19: a connect() that fails with a connect timeout clears the transport
\* handle, so that a connect() invoked before the reconnect timer fires starts
\* a new attempt
C19_TimeoutClearsHandle ==
  [][\A tk \in BagToSet(tasks) : PollTimeout(tk) => ws' = 0]_vars

\* C20: a reconnect attempt that failed schedules the next one, and a reconnect
\* attempt that succeeded on an open transport leaves the client resubscribed:
\* a subscribe frame for the topic of every entry has been transmitted on the
\* transport
C20_RetryUntilResubscribed ==
  [][\A tk \in BagToSet(tasks) :
       tk.origin = "reconnect" =>
         /\ Catch(tk) => (Cardinality(timers') = 1 /\ reconnectTimeout' \in timers')
         /\ (Then(tk) /\ IsOpen(ws, socks)) =>
              \A e \in Range(subscriptions) :
                <<ws, SubscribeFrame(e.topic)>> \in Range(wire')]_vars

\* the frames this step handed to WebSocket.send, with their socket
NewWire == SubSeq(wire', Len(wire) + 1, Len(wire'))

\* a sequence with its i-th element taken out
Without(q, i) == SubSeq(q, 1, i - 1) \o SubSeq(q, i + 1, Len(q))

\* C21: subscribe adds exactly one entry, with the topic given, under a handle
\* that no entry has or had, keeps every existing entry, and returns before
\* any connection step: no socket is constructed and no frame sent by the call
C21_SubscribeAddsOneFreshEntry ==
  [][\A topic \in Topics :
       Subscribe(topic) =>
         /\ Len(subscriptions') = Len(subscriptions) + 1
         /\ SubSeq(subscriptions', 1, Len(subscriptions)) = subscriptions
         /\ LET new == subscriptions'[Len(subscriptions')]
            IN /\ new.topic = topic
               /\ \A e \in Range(subscriptions) \cup removed : e.id # new.id
         /\ UNCHANGED <<ws, socks, messageQueue, emitted, wire>>]_vars

\* C21 witness: two subscriptions to one topic are registered under distinct
\* handles and no connection step has run
C21_Witness ==
  /\ Len(subscriptions) = 2
  /\ subscriptions[1].topic = subscriptions[2].topic
  /\ subscriptions[1].id # subscriptions[2].id
  /\ socks = <<>> /\ emitted = <<>>

\* C22: a step that sends while the transport is open transmits every buffered
\* frame once, then the frames it sends, in order and last, all on the current
\* transport, and leaves the buffer empty
C22_OpenSendFlushesBuffer ==
  [][(IsOpen(ws, socks) /\ NewEmitted # <<>>) =>
       LET flushed == SubSeq(NewWire, 1, Len(messageQueue))
       IN /\ Len(NewWire) = Len(messageQueue) + Len(NewEmitted)
          /\ \A k \in 1..Len(NewWire) : NewWire[k][1] = ws
          /\ \A f \in Range(messageQueue) :
               SeqCount(Frames(flushed), f) = SeqCount(messageQueue, f)
          /\ SubSeq(Frames(NewWire), Len(messageQueue) + 1, Len(NewWire)) = NewEmitted
          /\ messageQueue' = <<>>]_vars

\* C22 witness: three frames are on the wire in an order other than the one
\* they were sent in, which only a flush of two buffered frames followed by the
\* frame of that send produces; the buffer is empty
C22_Witness ==
  /\ Len(wire) = 3 /\ Len(emitted) = 3
  /\ Frames(wire) # emitted
  /\ messageQueue = <<>>

\* C23: a step that sends one frame while there is no transport handle or the
\* transport is not open adds that frame, and nothing else, to the buffer and
\* transmits nothing; the send of authenticate() or of a subscribe
\* continuation also leaves the registry, the handle, the sockets and the
\* reconnect timer as they were; and the buffer grows in no other state
C23_ClosedSendBuffersOneFrame ==
  [][/\ (~IsOpen(ws, socks) /\ Len(NewEmitted) = 1) =>
          /\ wire' = wire
          /\ \E i \in 1..Len(messageQueue') :
               /\ messageQueue'[i] = NewEmitted[1]
               /\ Without(messageQueue', i) = messageQueue
     /\ \A tk \in BagToSet(tasks) :
          (~IsOpen(ws, socks) /\ NewEmitted # <<>>
             /\ ((\E token \in Tokens : AuthResolve(tk, token)) \/ Then(tk))) =>
            UNCHANGED <<subscriptions, ws, socks, reconnectTimeout, timers>>
     /\ Len(messageQueue') > Len(messageQueue) => ~IsOpen(ws, socks)]_vars

\* C23 witness: two frames are buffered, nothing was transmitted and the
\* transport is not open
C23_Witness ==
  /\ Len(messageQueue) = 2 /\ messageQueue = <<emitted[2], emitted[1]>>
  /\ Len(emitted) = 2
  /\ wire = <<>>
  /\ ~IsOpen(ws, socks)

\* C24: the connect() of a subscribe call made while a transport handle exists
\* resolves at once: it constructs no socket, starts no endpoint lookup, sends
\* no frame and changes neither the handle nor the reconnect timer
C24_ConnectWithHandleIsNoop ==
  [][\A topic \in Topics :
       (ws # 0 /\ Subscribe(topic)) =>
         /\ \E tk \in BagToSet(tasks') :
              /\ CopiesIn(tk, tasks') = CopiesIn(tk, tasks) + 1
              /\ tk.pc = "resolved"
         /\ \A tk \in BagToSet(tasks') :
              tk.pc # "resolved" => CopiesIn(tk, tasks') = CopiesIn(tk, tasks)
         /\ UNCHANGED <<ws, socks, messageQueue, emitted, wire,
                        reconnectTimeout, timers>>]_vars

\* C24 witness: the only socket is still connecting, so no connect() has got
\* past its wait loop, and a connect() has resolved: the no-op of a subscribe
\* call made after the socket was constructed
C24_Witness ==
  /\ Len(socks) = 1 /\ ws = 1 /\ socks[1].readyState = "CONNECTING"
  /\ \E tk \in BagToSet(tasks) : tk.pc = "resolved" /\ tk.origin = "subscribe"
  /\ emitted = <<>>

\* the payloads a callback was invoked with, in order
RECURSIVE Payloads(_, _)
Payloads(cs, h) ==
  IF cs = <<>> THEN <<>>
  ELSE (IF Head(cs)[1] = h THEN <<Head(cs)[2]>> ELSE <<>>) \o Payloads(Tail(cs), h)

\* C25: the payloads passed to a subscription's callback are, in arrival order
\* and once each, those of the inbound frames on its topic that arrived while
\* it was registered: each such frame appends its payload to the sequence of
\* every entry on its topic, and to no other sequence
C25_DeliveryFollowsArrival ==
  [][\A s \in 1..Len(socks), ev \in InboundEvents(nMsgs + 1) :
       \A raisers \in SUBSET Subscribers(subscriptions, ev.topic) :
         (ev.parses /\ ev.topic \in Topics /\ SockMessage(s, ev, raisers)) =>
           \A n \in 1..(nextId - 1) :
             Payloads(calls', uuid(n)) =
               IF \E e \in Range(subscriptions) : e.id = uuid(n) /\ e.topic = ev.topic
               THEN Append(Payloads(calls, uuid(n)), ev.message)
               ELSE Payloads(calls, uuid(n))]_vars

\* C26: when the reconnect timer fires, the timer slot is cleared, the old
\* transport, if any, is closed and the handle discarded, and the connect()
\* of the reconnect starts an endpoint lookup instead of resolving as a no-op
C26_TimerFireStartsFreshConnect ==
  [][\A t \in timers :
       TimerFire(t) =>
         /\ reconnectTimeout' = 0 /\ t \notin timers'
         /\ ws' = 0
         /\ Len(socks') = Len(socks)
         /\ \A s \in 1..Len(socks) :
              /\ (s = ws => socks'[s].readyState \in {"CLOSING", "CLOSED"})
              /\ (s # ws => socks'[s] = socks[s])
         /\ \E tk \in BagToSet(tasks') :
              /\ CopiesIn(tk, tasks') = CopiesIn(tk, tasks) + 1
              /\ tk.origin = "reconnect" /\ tk.pc = "discovery"]_vars

\* C26 witness: the timer fired while the handle held a socket: the socket is
\* closing by a close() without code, the handle and the slot are clear and
\* the reconnect's connect() is waiting for the endpoint lookup
C26_Witness ==
  /\ Len(socks) = 1 /\ socks[1].readyState = "CLOSING" /\ socks[1].closeCode = 0
  /\ ws = 0 /\ reconnectTimeout = 0 /\ timers = {}
  /\ \E tk \in BagToSet(tasks) : tk.origin = "reconnect" /\ tk.pc = "discovery"

\* C27: the lifecycle: a socket is constructed only when there is no transport
\* handle, frames are transmitted only on the current transport in the open
\* state, and the handle becomes absent only by the teardown of an unsubscribe
\* call that empties the registry or by a firing reconnect timer
C27_Lifecycle ==
  [][/\ Len(socks') > Len(socks) => ws = 0
     /\ NewWire # <<>> => (IsOpen(ws, socks) /\ \A k \in 1..Len(NewWire) : NewWire[k][1] = ws)
     /\ (ws # 0 /\ ws' = 0) =>
          \/ \E t \in timers : TimerFire(t)
          \/ subscriptions # <<>> /\ subscriptions' = <<>>]_vars

\* C28: the socket is constructed with the base URL whose scheme is rewritten,
\* http to ws and https to wss, and whose host and path are those of the base
\* URL
C28_SchemeRewrittenToStreaming ==
  [][\A tk \in BagToSet(tasks), apiUrl \in BaseUrls :
       DiscoveryResolve(tk, apiUrl) =>
         /\ Len(socks') = Len(socks) + 1
         /\ socks'[Len(socks')].url =
              <<IF apiUrl[1] = "http" THEN "ws" ELSE "wss", apiUrl[2], apiUrl[3]>>]_vars

\* C28 witness: a socket was constructed for a secure base URL and one for a
\* plain base URL on another host and path
C28_Witness ==
  /\ Len(socks) = 2
  /\ socks[1].url = <<"wss", "backstage.example", "/backstage/api/signals">>
  /\ socks[2].url = <<"ws", "localhost:7007", "/api/signals">>

\* what a server holds subscribed after the frames in w that socket s carried,
\* applied in order
RECURSIVE ServerView(_, _)
ServerView(w, s) ==
  IF w = <<>> THEN {}
  ELSE LET last == w[Len(w)]
           before == ServerView(SubSeq(w, 1, Len(w) - 1), s)
       IN IF last[1] # s THEN before
          ELSE IF last[2][1] = "subscribe" THEN before \cup {last[2][2]}
          ELSE IF last[2][1] = "unsubscribe" THEN before \ {last[2][2]}
          ELSE before

\* C29: once the client has settled on an open transport, the topics the
\* server holds subscribed on it, by the frames transmitted in order, are the
\* topics that have an entry in the registry
C29_ServerViewMatchesRegistry ==
  (Quiescent /\ IsOpen(ws, socks)) =>
    ServerView(wire, ws) = {e.topic : e \in Range(subscriptions)}

\* C30: a step hands a subscribe frame for a topic to send only while the
\* registry has an entry with that topic
C30_SubscribeFrameOnlyWhileRegistered ==
  [][\A k \in 1..Len(NewEmitted) :
       NewEmitted[k][1] = "subscribe" =>
         \E e \in Range(subscriptions) : e.topic = NewEmitted[k][2]]_vars

\* C31: once the registry has become empty, and until subscribe is called, no
\* transport is held, connecting or open, and no reconnect timer is pending
C31_NothingLeftAfterTeardown ==
  (subscriptions = <<>> /\ removed # {}) =>
    /\ ws = 0
    /\ \A s \in 1..Len(socks) : socks[s].readyState \notin {"CONNECTING", "OPEN"}
    /\ timers = {}

\* C32: the events of a socket that is not the current transport invoke no
\* callback and schedule no reconnect
C32_StaleTransportIsInert ==
  [][\A s \in 1..Len(socks) :
       s # ws =>
         /\ (\E code \in CloseCodes : SockClose(s, code)) =>
              (timers' = timers /\ reconnectTimeout' = reconnectTimeout)
         /\ SockError(s) => (timers' = timers /\ reconnectTimeout' = reconnectTimeout)
         /\ (\E ev \in InboundEvents(nMsgs + 1) :
               \E raisers \in SUBSET Subscribers(subscriptions, ev.topic) :
                 SockMessage(s, ev, raisers)) => calls' = calls]_vars

\* C33: while the registry is not empty the transport is open, or a connect()
\* is in flight, or a reconnect timer is pending
C33_SubscribersAreNeverStranded ==
  subscriptions # <<>> =>
    \/ IsOpen(ws, socks)
    \/ BagToSet(tasks) # {}
    \/ timers # {}

\* C34: when the continuation of a resolved connect() runs, the transport
\* handle holds an open socket, and the frames the continuation sends are
\* transmitted, none buffered
C34_ResolvedConnectIsOpen ==
  [][\A tk \in BagToSet(tasks) :
       Then(tk) =>
         /\ IsOpen(ws, socks)
         /\ messageQueue' = <<>>
         /\ Len(NewWire) >= Len(NewEmitted)]_vars

\* C35: when a callback throws during the dispatch of an inbound frame, every
\* entry on the frame's topic is still invoked with the frame's payload
C35_RaisingCallbackDoesNotStopDispatch ==
  [][\A s \in 1..Len(socks), ev \in InboundEvents(nMsgs + 1) :
       \A raisers \in SUBSET Subscribers(subscriptions, ev.topic) :
         (ev.parses /\ raisers # {} /\ SockMessage(s, ev, raisers)) =>
           \A h \in Subscribers(subscriptions, ev.topic) :
             \E k \in 1..Len(NewCalls) : NewCalls[k] = <<h, ev.message>>]_vars

====
